---- MODULE Spec2Model ----
(***************************************************************************)
(* A model of robin_stocks/robinhood/export.py: the path helpers           *)
(* fix_file_extension and create_absolute_csv, and the three exports       *)
(* export_completed_stock_orders, export_completed_crypto_orders and       *)
(* export_completed_option_orders.                                         *)
(*                                                                         *)
(* Strings that the code parses (file names, directories) are sequences    *)
(* of one-character strings; a pathlib path is a record                    *)
(* [abs, parts], parts being the sequence of its components.  Values that  *)
(* the code only copies (timestamps, sides, fees, ...) are opaque strings. *)
(* Prices and quantities of option executions are integers and a weighted  *)
(* average is an exact fraction [n, d] in lowest terms.                    *)
(***************************************************************************)
EXTENDS Integers, Sequences, FiniteSets, TLC

VARIABLES
    cwd,        \* the process's current working directory (path components)
    dir_path,   \* argument dir_path
    file_name,  \* argument file_name; <<>> when None or ""
    order_type, \* argument order_type of create_absolute_csv
    ret,        \* what a call of create_absolute_csv / the aggregation gave
    op,         \* which operation runs: "path", "agg", "stock", "crypto", "option"
    pc,         \* position in the running operation
    err,        \* the exception that ended the operation, "" when none
    file_path,  \* local file_path of an export
    all_orders, \* local all_orders of an export
    dest,       \* the destination file's content (NoFile: there is no such file)
    i,          \* index of the order the row loop is at
    j,          \* index of the execution / leg the inner loop is at
    calls,      \* number of calls made to the API client so far
    executions  \* the executions of the leg being aggregated

vars == <<cwd, dir_path, file_name, order_type, ret, op, pc, err, file_path,
          all_orders, dest, i, j, calls, executions>>

-----------------------------------------------------------------------------
(* Bounds *)

MaxNameLen == 3
MaxDirLen == 2
MaxOrders == 2
MaxExecs == 2
MaxLegs == 2
MaxAggLen == 3

-----------------------------------------------------------------------------
(* Strings *)

NoFile == "NoFile"
NoPath == [abs |-> FALSE, parts |-> <<>>]
None == "None"

Str_stock == <<"s", "t", "o", "c", "k">>
Str_crypto == <<"c", "r", "y", "p", "t", "o">>
Str_option == <<"o", "p", "t", "i", "o", "n">>
Str_orders_csv == <<"_", "o", "r", "d", "e", "r", "s", ".", "c", "s", "v">>
Str_csv == <<".", "c", "s", "v">>

RECURSIVE Strings(_, _)
Strings(alphabet, n) ==
    IF n = 0 THEN {<<>>}
    ELSE LET shorter == Strings(alphabet, n - 1)
         IN  shorter \cup {Append(s, c) : s \in shorter, c \in alphabet}

-----------------------------------------------------------------------------
(* pathlib (POSIX flavour), as far as the code uses it *)

\* The components of s between slashes, empty ones included.
RECURSIVE SplitSlash(_)
SplitSlash(s) ==
    IF s = <<>> THEN << <<>> >>
    ELSE LET rest == SplitSlash(Tail(s))
         IN  IF Head(s) = "/" THEN << <<>> >> \o rest
             ELSE << <<Head(s)>> \o Head(rest) >> \o Tail(rest)

\* Path(s): empty and "." components are dropped, a leading slash is the root.
PathOf(s) ==
    [abs   |-> s # <<>> /\ Head(s) = "/",
     parts |-> SelectSeq(SplitSlash(s), LAMBDA c : c # <<>> /\ c # <<".">>)]

\* path.name: the last component, "" when there is none.
PathName(p) == IF p.parts = <<>> THEN <<>> ELSE p.parts[Len(p.parts)]

\* name.rfind("."), 1-based; 0 when there is no dot.
LastDot(name) ==
    LET dots == {k \in 1..Len(name) : name[k] = "."}
    IN  IF dots = {} THEN 0 ELSE CHOOSE k \in dots : \A m \in dots : m <= k

\* path.suffix: from the last dot on, unless the dot is first or last.
PathSuffix(p) ==
    LET name == PathName(p)
        k == LastDot(name)
    IN  IF 1 < k /\ k < Len(name) THEN SubSeq(name, k, Len(name)) ELSE <<>>

\* path.with_suffix(suffix): ValueError on an empty name.
WithSuffix(p, suffix) ==
    LET name == PathName(p)
        old == PathSuffix(p)
        stem == SubSeq(name, 1, Len(name) - Len(old))
    IN  IF name = <<>> THEN [ok |-> FALSE, err |-> "ValueError"]
        ELSE [ok |-> TRUE,
              val |-> [abs   |-> p.abs,
                       parts |-> SubSeq(p.parts, 1, Len(p.parts) - 1)
                                    \o << stem \o suffix >>]]

\* ".." components folded away, left to right; the root's parent is the root.
RECURSIVE Collapse(_, _)
Collapse(done, todo) ==
    IF todo = <<>> THEN done
    ELSE IF Head(todo) = <<".", ".">>
         THEN Collapse(IF done = <<>> THEN <<>>
                       ELSE SubSeq(done, 1, Len(done) - 1), Tail(todo))
         ELSE Collapse(Append(done, Head(todo)), Tail(todo))

\* path.resolve(), non-strict, in a file system without symbolic links.
Resolve(p, wd) ==
    [abs   |-> TRUE,
     parts |-> Collapse(<<>>, IF p.abs THEN p.parts ELSE wd \o p.parts)]

\* Path.joinpath(a, b): an absolute b replaces a.
JoinPath(a, b) ==
    IF b.abs THEN b ELSE [abs |-> a.abs, parts |-> a.parts \o b.parts]

-----------------------------------------------------------------------------
(* fix_file_extension and create_absolute_csv *)

\* fix_file_extension without line 21: the suffix is left as given.
fix_file_extension_keeps_suffix(name, wd) ==
    [ok |-> TRUE, val |-> Resolve(PathOf(name), wd)]

fix_file_extension(name, wd) ==
    LET path == WithSuffix(PathOf(name), Str_csv)
    IN  IF path.ok THEN [ok |-> TRUE, val |-> Resolve(path.val, wd)] ELSE path

create_absolute_csv(dir, name, type, wd) ==
    LET directory == Resolve(PathOf(dir), wd)
    IN  IF name = <<>>
        THEN [ok |-> TRUE, val |-> JoinPath(directory, PathOf(type \o Str_orders_csv))]
        ELSE LET fixed == fix_file_extension(name, wd)
             IN  IF fixed.ok THEN [ok |-> TRUE, val |-> JoinPath(directory, fixed.val)]
                 ELSE fixed

-----------------------------------------------------------------------------
(* The API client: what the lookups of a successful call return *)

\* get_symbol_by_url(url)
SymbolOf(url) == IF url = "instrument1" THEN "AAPL" ELSE "MSFT"

\* get_crypto_quote_from_id(id, "symbol")
CryptoSymbolOf(id) == IF id = "pair1" THEN "BTCUSD" ELSE "ETHUSD"

\* request_get(url) of an option instrument
InstrumentData(url) ==
    IF url = "option1"
    THEN [expiration_date |-> "2021-01-15", strike_price |-> "100.0",
          type |-> "call", id |-> "id1"]
    ELSE [expiration_date |-> "2021-02-19", strike_price |-> "55.5",
          type |-> "put", id |-> "id2"]

-----------------------------------------------------------------------------
(* The order lists the API client may return *)

Variants == 1..2
Pick(v, a, b) == IF v = 1 THEN a ELSE b

\* The k-th execution of a stock or crypto order.
Partial(k) ==
    [timestamp |-> <<"ts1", "ts2", "ts3", "ts4">>[k],
     quantity  |-> <<"3", "2", "1", "4">>[k],
     price     |-> <<"100", "105", "110", "95">>[k]]

Partials(n) == [k \in 1..n |-> Partial(k)]

StockOrder(state, cancel, n, v) ==
    [state               |-> state,
     cancel              |-> cancel,
     executions          |-> Partials(n),
     instrument          |-> Pick(v, "instrument1", "instrument2"),
     last_transaction_at |-> Pick(v, "t1", "t2"),
     type                |-> Pick(v, "market", "limit"),
     side                |-> Pick(v, "buy", "sell"),
     fees                |-> Pick(v, "0.00", "0.02"),
     quantity            |-> Pick(v, "10", "5"),
     average_price       |-> Pick(v, "150.0", "99.5")]

StockOrders ==
    {StockOrder("filled", c, n, v) :
        c \in {None, "cancel_url"}, n \in 0..1, v \in Variants}
    \cup {StockOrder("cancelled", c, n, v) :
        c \in {None, "cancel_url"}, n \in 0..MaxExecs, v \in Variants}
    \cup {StockOrder("queued", None, 0, v) : v \in Variants}

CryptoOrderNoFees(state, cancel_url, n, v) ==
    [state               |-> state,
     cancel_url          |-> cancel_url,
     executions          |-> Partials(n),
     currency_pair_id    |-> Pick(v, "pair1", "pair2"),
     last_transaction_at |-> Pick(v, "t1", "t2"),
     type                |-> Pick(v, "market", "limit"),
     side                |-> Pick(v, "buy", "sell"),
     quantity            |-> Pick(v, "0.5", "2"),
     average_price       |-> Pick(v, "30000", "1800")]

CryptoOrder(state, cancel_url, n, v) ==
    [k \in DOMAIN CryptoOrderNoFees(state, cancel_url, n, v) \cup {"fees"} |->
        IF k = "fees" THEN Pick(v, "0.01", "0.03")
        ELSE CryptoOrderNoFees(state, cancel_url, n, v)[k]]

CryptoOrders ==
    {CryptoOrder("filled", c, 1, v) : c \in {None, "cancel_url"}, v \in Variants}
    \cup {CryptoOrderNoFees("filled", c, 1, v) :
            c \in {None, "cancel_url"}, v \in Variants}
    \cup {CryptoOrder("canceled", None, n, v) : n \in 0..1, v \in Variants}
    \cup {CryptoOrder("cancelled", None, n, v) : n \in 0..1, v \in Variants}

\* The k-th execution of an option leg: price and quantity as numbers.
LegExecution(k) == [price |-> 10 * k, quantity |-> k + 1]

Leg(side, option, execs) ==
    [side |-> side, option |-> option, executions |-> execs]

LegPool ==
    LET full == Leg("buy", "option1", [k \in 1..MaxExecs |-> LegExecution(k)])
        one == Leg("sell", "option2", <<LegExecution(2)>>)
        empty == Leg("buy", "option2", <<>>)
        zero == Leg("sell", "option1", <<[price |-> 10, quantity |-> 0]>>)
    IN  <<full, one, empty, zero>>

\* Up to MaxLegs consecutive legs of the pool, taken cyclically.
LegLists ==
    {[k \in 1..n |-> LegPool[((s + k - 2) % Len(LegPool)) + 1]] :
        s \in 1..Len(LegPool), n \in 0..MaxLegs}

OptionOrder(state, legs, v) ==
    [state              |-> state,
     legs               |-> legs,
     chain_symbol       |-> Pick(v, "SPY", "QQQ"),
     created_at         |-> Pick(v, "t1", "t2"),
     direction          |-> Pick(v, "debit", "credit"),
     type               |-> Pick(v, "limit", "market"),
     opening_strategy   |-> Pick(v, "long_call", None),
     closing_strategy   |-> Pick(v, None, "short_put"),
     quantity           |-> Pick(v, "7", "9"),
     price              |-> Pick(v, "1.25", "0.80"),
     processed_quantity |-> Pick(v, "7", "9"),
     regulatory_fees    |-> Pick(v, "0.03", "0.00")]

OptionOrders ==
    {OptionOrder("filled", legs, v) : legs \in LegLists, v \in Variants}
    \cup {OptionOrder("cancelled", <<LegPool[1]>>, 1)}

OrderLists(orders) ==
    UNION {[1..n -> orders] : n \in 0..MaxOrders}

OrdersOf(o) ==
    IF o = "stock" THEN StockOrders
    ELSE IF o = "crypto" THEN CryptoOrders
    ELSE OptionOrders

-----------------------------------------------------------------------------
(* Rows *)

StockHeader ==
    <<"symbol", "date", "order_type", "side", "fees", "quantity", "average_price">>

OptionHeader ==
    <<"chain_symbol", "expiration_date", "strike_price", "option_type",
      "option_id", "side", "order_created_at", "direction", "order_quantity",
      "order_type", "opening_strategy", "closing_strategy", "price",
      "processed_quantity", "fees">>

HeaderOf(o) == IF o = "option" THEN OptionHeader ELSE StockHeader

\* The first if of the stock loop.
StockIsPartial(order) ==
    order.state = "cancelled" /\ Len(order.executions) > 0

\* The second if of the stock loop.
StockIsFilled(order) ==
    order.state = "filled" /\ order.cancel = None

\* The partial row with the order's quantity in place of the execution's.
StockPartialRowOf_order_quantity(order, partial) ==
    <<SymbolOf(order.instrument), partial.timestamp, order.type, order.side,
      order.fees, order.quantity, partial.price>>

StockPartialRowOf(order, partial) ==
    <<SymbolOf(order.instrument), partial.timestamp, order.type, order.side,
      order.fees, partial.quantity, partial.price>>

\* The filled row with quantity and average_price exchanged.
StockFilledRowOf_swapped(order) ==
    <<SymbolOf(order.instrument), order.last_transaction_at, order.type,
      order.side, order.fees, order.average_price, order.quantity>>

StockFilledRowOf(order) ==
    <<SymbolOf(order.instrument), order.last_transaction_at, order.type,
      order.side, order.fees, order.quantity, order.average_price>>

\* The if of the crypto loop without its test of cancel_url.
CryptoIsFilled_ignores_cancel_url(order) == order.state = "filled"

\* The if of the crypto loop.
CryptoIsFilled(order) ==
    order.state = "filled" /\ order.cancel_url = None

\* try: order["fees"] except KeyError: 0.0, as the csv writer prints it.
CryptoFees(order) ==
    IF "fees" \in DOMAIN order THEN order.fees ELSE "0.0"

CryptoRowOf(order) ==
    <<CryptoSymbolOf(order.currency_pair_id), order.last_transaction_at,
      order.type, order.side, CryptoFees(order), order.quantity,
      order.average_price>>

-----------------------------------------------------------------------------
(* The aggregation of a leg's executions (lines 189-194) *)

RECURSIVE SumQuantity(_)
SumQuantity(execs) ==
    IF execs = <<>> THEN 0 ELSE Head(execs).quantity + SumQuantity(Tail(execs))

RECURSIVE SumWeighted(_)
SumWeighted(execs) ==
    IF execs = <<>> THEN 0
    ELSE Head(execs).price * Head(execs).quantity + SumWeighted(Tail(execs))

RECURSIVE Gcd(_, _)
Gcd(a, b) == IF b = 0 THEN a ELSE Gcd(b, a % b)

\* The quotient n / d, d > 0, as a fraction in lowest terms.
Quotient(n, d) == [n |-> n \div Gcd(n, d), d |-> d \div Gcd(n, d)]

\* np.average without its weights: the plain mean of the prices.
RECURSIVE SumPrice(_)
SumPrice(execs) ==
    IF execs = <<>> THEN 0 ELSE Head(execs).price + SumPrice(Tail(execs))

NpAverage_unweighted(execs) ==
    IF SumQuantity(execs) = 0 THEN [ok |-> FALSE, err |-> "ZeroDivisionError"]
    ELSE [ok |-> TRUE, val |-> Quotient(SumPrice(execs), Len(execs))]

\* np.average(a, weights=w): (a * w).sum() / w.sum(), ZeroDivisionError when
\* the weights sum to zero.
NpAverage(execs) ==
    IF SumQuantity(execs) = 0 THEN [ok |-> FALSE, err |-> "ZeroDivisionError"]
    ELSE [ok |-> TRUE, val |-> Quotient(SumWeighted(execs), SumQuantity(execs))]

\* The aggregation giving zeros for an empty list instead of raising.
Aggregate_empty_as_zero(execs) ==
    IF execs = <<>>
    THEN [ok |-> TRUE, total_quantity |-> 0, avg_price |-> [n |-> 0, d |-> 1]]
    ELSE LET avg_price == NpAverage(execs)
         IN  IF avg_price.ok
             THEN [ok |-> TRUE, total_quantity |-> SumQuantity(execs),
                   avg_price |-> avg_price.val]
             ELSE avg_price

\* pd.DataFrame([]) has no column "price": df["price"] is a KeyError.
Aggregate(execs) ==
    IF execs = <<>> THEN [ok |-> FALSE, err |-> "KeyError"]
    ELSE LET avg_price == NpAverage(execs)
         IN  IF avg_price.ok
             THEN [ok |-> TRUE, total_quantity |-> SumQuantity(execs),
                   avg_price |-> avg_price.val]
             ELSE avg_price

\* The if of the option loop.
OptionIsFilled(order) == order.state = "filled"

\* The leg row with the order's quantity and price (the commented-out cells
\* of lines 206 and 210) in place of the aggregate.
OptionRowOf_order_level(order, leg, instrument_data, agg) ==
    <<order.chain_symbol, instrument_data.expiration_date,
      instrument_data.strike_price, instrument_data.type, instrument_data.id,
      leg.side, order.created_at, order.direction, order.quantity,
      order.type, order.opening_strategy, order.closing_strategy,
      order.price, order.processed_quantity, order.regulatory_fees>>

\* The row of one leg; the csv writer prints the two numbers.
OptionRowOf(order, leg, instrument_data, agg) ==
    <<order.chain_symbol, instrument_data.expiration_date,
      instrument_data.strike_price, instrument_data.type, instrument_data.id,
      leg.side, order.created_at, order.direction,
      ToString(agg.total_quantity), order.type, order.opening_strategy,
      order.closing_strategy, ToString(agg.avg_price),
      order.processed_quantity, order.regulatory_fees>>

-----------------------------------------------------------------------------
(* The exports: what the three have in common *)

Exports == {"stock", "crypto", "option"}

TypeOf(o) ==
    IF o = "stock" THEN Str_stock
    ELSE IF o = "crypto" THEN Str_crypto
    ELSE Str_option

Raise(e) ==
    /\ pc' = "error"
    /\ err' = e

\* file_path = create_absolute_csv(dir_path, file_name, <type>)
ResolveDestination ==
    /\ op \in Exports
    /\ pc = "start"
    /\ LET path == create_absolute_csv(dir_path, file_name, TypeOf(op), cwd)
       IN  IF path.ok
           THEN /\ file_path' = path.val
                /\ pc' = "resolved"
                /\ err' = err
           ELSE /\ Raise(path.err)
                /\ file_path' = file_path
    /\ UNCHANGED <<cwd, dir_path, file_name, order_type, ret, op, all_orders,
                   dest, i, j, calls, executions>>

\* all_orders = get_all_<type>_orders()
FetchOrders ==
    /\ op \in Exports
    /\ pc = "resolved"
    /\ \E orders \in OrderLists(OrdersOf(op)) : all_orders' = orders
    /\ calls' = calls + 1
    /\ pc' = "fetched"
    /\ UNCHANGED <<cwd, dir_path, file_name, order_type, ret, op, err,
                   file_path, dest, i, j, executions>>

\* The fetch failing after the destination was opened and the header written.
FetchOrdersFail_after_open ==
    /\ op \in Exports
    /\ pc = "resolved"
    /\ calls' = calls + 1
    /\ dest' = <<HeaderOf(op)>>
    /\ Raise("fetch")
    /\ UNCHANGED <<cwd, dir_path, file_name, order_type, ret, op, file_path,
                   all_orders, i, j, executions>>

\* get_all_<type>_orders() raises.
FetchOrdersFail ==
    /\ op \in Exports
    /\ pc = "resolved"
    /\ calls' = calls + 1
    /\ Raise("fetch")
    /\ UNCHANGED <<cwd, dir_path, file_name, order_type, ret, op, file_path,
                   all_orders, dest, i, j, executions>>

\* open(file_path, "w") and the header row.
OpenAndWriteHeader ==
    /\ op \in Exports
    /\ pc = "fetched"
    /\ dest' = <<HeaderOf(op)>>
    /\ i' = 1
    /\ j' = 1
    /\ pc' = "loop"
    /\ UNCHANGED <<cwd, dir_path, file_name, order_type, ret, op, err,
                   file_path, all_orders, calls, executions>>

\* open(file_path, "w") raises (the directory does not exist).
OpenFail ==
    /\ op \in Exports
    /\ pc = "fetched"
    /\ Raise("open")
    /\ UNCHANGED <<cwd, dir_path, file_name, order_type, ret, op, file_path,
                   all_orders, dest, i, j, calls, executions>>

AtOrder == pc = "loop" /\ i <= Len(all_orders)

\* csv_writer.writerow(row) after one successful lookup.
WriteRow(row) ==
    /\ dest' = Append(dest, row)
    /\ calls' = calls + 1

\* A failing lookup that leaves an empty row behind.
LookupFail_writes_row ==
    /\ calls' = calls + 1
    /\ dest' = Append(dest, <<>>)
    /\ Raise("lookup")
    /\ UNCHANGED <<cwd, dir_path, file_name, order_type, ret, op, file_path,
                   all_orders, i, j, executions>>

\* A lookup made for a row raises.
LookupFail ==
    /\ calls' = calls + 1
    /\ Raise("lookup")
    /\ UNCHANGED <<cwd, dir_path, file_name, order_type, ret, op, file_path,
                   all_orders, dest, i, j, executions>>

NextOrder ==
    /\ i' = i + 1
    /\ j' = 1
    /\ UNCHANGED <<cwd, dir_path, file_name, order_type, ret, op, pc, err,
                   file_path, all_orders, dest, calls, executions>>

\* The loop is over: f.close() and return.
CloseAndReturn ==
    /\ op \in Exports
    /\ pc = "loop"
    /\ i > Len(all_orders)
    /\ pc' = "done"
    /\ UNCHANGED <<cwd, dir_path, file_name, order_type, ret, op, err,
                   file_path, all_orders, dest, i, j, calls, executions>>

-----------------------------------------------------------------------------
(* export_completed_stock_orders: the loop *)

StockInPartials ==
    /\ StockIsPartial(all_orders[i])
    /\ j <= Len(all_orders[i].executions)

StockPartialRow ==
    /\ op = "stock" /\ AtOrder
    /\ StockInPartials
    /\ WriteRow(StockPartialRowOf(all_orders[i], all_orders[i].executions[j]))
    /\ j' = j + 1
    /\ UNCHANGED <<cwd, dir_path, file_name, order_type, ret, op, pc, err,
                   file_path, all_orders, i, executions>>

StockFilledRow ==
    /\ op = "stock" /\ AtOrder
    /\ ~StockInPartials
    /\ StockIsFilled(all_orders[i])
    /\ WriteRow(StockFilledRowOf(all_orders[i]))
    /\ i' = i + 1
    /\ j' = 1
    /\ UNCHANGED <<cwd, dir_path, file_name, order_type, ret, op, pc, err,
                   file_path, all_orders, executions>>

StockLookupFail ==
    /\ op = "stock" /\ AtOrder
    /\ StockInPartials \/ StockIsFilled(all_orders[i])
    /\ LookupFail

StockNextOrder ==
    /\ op = "stock" /\ AtOrder
    /\ ~StockInPartials
    /\ ~StockIsFilled(all_orders[i])
    /\ NextOrder

-----------------------------------------------------------------------------
(* export_completed_crypto_orders: the loop *)

CryptoFilledRow ==
    /\ op = "crypto" /\ AtOrder
    /\ CryptoIsFilled(all_orders[i])
    /\ WriteRow(CryptoRowOf(all_orders[i]))
    /\ i' = i + 1
    /\ j' = 1
    /\ UNCHANGED <<cwd, dir_path, file_name, order_type, ret, op, pc, err,
                   file_path, all_orders, executions>>

CryptoLookupFail ==
    /\ op = "crypto" /\ AtOrder
    /\ CryptoIsFilled(all_orders[i])
    /\ LookupFail

CryptoNextOrder ==
    /\ op = "crypto" /\ AtOrder
    /\ ~CryptoIsFilled(all_orders[i])
    /\ NextOrder

-----------------------------------------------------------------------------
(* export_completed_option_orders: the loop *)

OptionInLegs ==
    /\ OptionIsFilled(all_orders[i])
    /\ j <= Len(all_orders[i].legs)

OptionLegRow ==
    /\ op = "option" /\ AtOrder
    /\ OptionInLegs
    /\ LET leg == all_orders[i].legs[j]
           agg == Aggregate(leg.executions)
       IN  /\ agg.ok
           /\ WriteRow(OptionRowOf(all_orders[i], leg,
                                   InstrumentData(leg.option), agg))
    /\ j' = j + 1
    /\ UNCHANGED <<cwd, dir_path, file_name, order_type, ret, op, pc, err,
                   file_path, all_orders, i, executions>>

\* request_get returned, the aggregation raises.
OptionLegAggregateFail ==
    /\ op = "option" /\ AtOrder
    /\ OptionInLegs
    /\ LET agg == Aggregate(all_orders[i].legs[j].executions)
       IN  /\ ~agg.ok
           /\ Raise(agg.err)
    /\ calls' = calls + 1
    /\ UNCHANGED <<cwd, dir_path, file_name, order_type, ret, op, file_path,
                   all_orders, dest, i, j, executions>>

OptionLookupFail ==
    /\ op = "option" /\ AtOrder
    /\ OptionInLegs
    /\ LookupFail

OptionNextOrder ==
    /\ op = "option" /\ AtOrder
    /\ ~OptionInLegs
    /\ NextOrder

-----------------------------------------------------------------------------
(* The exports as one specification *)

OldContent == << <<"old", "content">> >>

Init ==
    /\ op \in Exports
    /\ pc = "start"
    /\ err = ""
    /\ cwd = << <<"w">> >>
    /\ dir_path = <<"d">>
    /\ file_name \in {<<>>, <<".">>}
    /\ order_type = TypeOf(op)
    /\ ret = None
    /\ file_path = NoPath
    /\ all_orders = <<>>
    /\ dest \in {NoFile, OldContent}
    /\ i = 1
    /\ j = 1
    /\ calls = 0
    /\ executions = <<>>

Next ==
    \/ ResolveDestination
    \/ FetchOrders
    \/ FetchOrdersFail
    \/ OpenAndWriteHeader
    \/ OpenFail
    \/ CloseAndReturn
    \/ StockPartialRow
    \/ StockFilledRow
    \/ StockLookupFail
    \/ StockNextOrder
    \/ CryptoFilledRow
    \/ CryptoLookupFail
    \/ CryptoNextOrder
    \/ OptionLegRow
    \/ OptionLegAggregateFail
    \/ OptionLookupFail
    \/ OptionNextOrder

Spec == Init /\ [][Next]_vars

-----------------------------------------------------------------------------
(* create_absolute_csv alone, over bounded arguments *)

InitPath ==
    /\ op = "path"
    /\ pc = "call"
    /\ err = ""
    /\ cwd \in {<<>>, << <<"w">> >>}
    /\ dir_path \in Strings({"d", ".", "/"}, MaxDirLen)
    /\ file_name \in Strings({"a", ".", "/"}, MaxNameLen)
    /\ order_type \in {Str_stock, Str_option, Str_crypto}
    /\ ret = None
    /\ file_path = NoPath
    /\ all_orders = <<>>
    /\ dest = NoFile
    /\ i = 1
    /\ j = 1
    /\ calls = 0
    /\ executions = <<>>

CallCreateAbsoluteCsv ==
    /\ op = "path"
    /\ pc = "call"
    /\ LET path == create_absolute_csv(dir_path, file_name, order_type, cwd)
       IN  /\ ret' = path
           /\ pc' = IF path.ok THEN "returned" ELSE "raised"
           /\ err' = IF path.ok THEN err ELSE path.err
    /\ UNCHANGED <<cwd, dir_path, file_name, order_type, op, file_path,
                   all_orders, dest, i, j, calls, executions>>

NextPath == CallCreateAbsoluteCsv

SpecPath == InitPath /\ [][NextPath]_vars

-----------------------------------------------------------------------------
(* The aggregation alone, over bounded execution lists *)

AggExecutions ==
    {[price |-> p, quantity |-> q] : p \in {10, 20}, q \in {0, 2, 3}}

InitAgg ==
    /\ op = "agg"
    /\ pc = "call"
    /\ err = ""
    /\ cwd = <<>>
    /\ dir_path = <<>>
    /\ file_name = <<>>
    /\ order_type = Str_option
    /\ ret = None
    /\ file_path = NoPath
    /\ all_orders = <<>>
    /\ dest = NoFile
    /\ i = 1
    /\ j = 1
    /\ calls = 0
    /\ executions \in UNION {[1..n -> AggExecutions] : n \in 0..MaxAggLen}

CallAggregate ==
    /\ op = "agg"
    /\ pc = "call"
    /\ LET agg == Aggregate(executions)
       IN  /\ ret' = agg
           /\ pc' = IF agg.ok THEN "returned" ELSE "raised"
           /\ err' = IF agg.ok THEN err ELSE agg.err
    /\ UNCHANGED <<cwd, dir_path, file_name, order_type, op, file_path,
                   all_orders, dest, i, j, calls, executions>>

NextAgg == CallAggregate

SpecAgg == InitAgg /\ [][NextAgg]_vars

-----------------------------------------------------------------------------
(* What the claims say of an order: stated from the claims, not from the   *)
(* operators above                                                         *)

Opened == op \in Exports /\ pc \in {"loop", "done", "error"} /\ dest # NoFile
             /\ (pc = "error" => err \notin {"fetch", "open", "ValueError"})

FilledUncancelled(o) ==
    /\ o.state = "filled"
    /\ IF op = "stock" THEN o.cancel = None ELSE o.cancel_url = None

CancelledWithExecutions(o) == o.state = "cancelled" /\ Len(o.executions) >= 1

\* The row a filled order is said to give (stock and crypto).
ClaimedFilledRow(o) ==
    <<IF op = "stock" THEN SymbolOf(o.instrument)
      ELSE CryptoSymbolOf(o.currency_pair_id),
      o.last_transaction_at, o.type, o.side,
      IF op = "crypto" /\ "fees" \notin DOMAIN o THEN "0.0" ELSE o.fees,
      o.quantity, o.average_price>>

\* The row the m-th execution of a cancelled stock order is said to give.
ClaimedExecutionRow(o, m) ==
    <<SymbolOf(o.instrument), o.executions[m].timestamp, o.type, o.side,
      o.fees, o.executions[m].quantity, o.executions[m].price>>

RECURSIVE TotalOf(_, _, _)
TotalOf(execs, m, weighted) ==
    IF m = 0 THEN 0
    ELSE TotalOf(execs, m - 1, weighted)
            + (IF weighted THEN execs[m].price * execs[m].quantity
               ELSE execs[m].quantity)

TotalQuantity(execs) == TotalOf(execs, Len(execs), FALSE)
TotalWeighted(execs) == TotalOf(execs, Len(execs), TRUE)

\* f is the fraction a / b in lowest terms.
IsQuotient(f, a, b) ==
    /\ f.d > 0
    /\ f.n * b = f.d * a
    /\ \A h \in 2..f.d : ~(f.n % h = 0 /\ f.d % h = 0)

\* The weighted average of a leg's executions as the csv writer prints it.
ClaimedAverageCell(execs) ==
    IF execs = <<>> \/ TotalQuantity(execs) = 0 THEN "undefined"
    ELSE LET a == TotalWeighted(execs)
             b == TotalQuantity(execs)
             common == {h \in 1..b : a % h = 0 /\ b % h = 0}
             g == CHOOSE h \in common : \A h2 \in common : h2 <= h
         IN  ToString([n |-> a \div g, d |-> b \div g])

\* The row the m-th leg of a filled option order is said to give.
ClaimedLegRow(o, m) ==
    LET leg == o.legs[m]
        data == InstrumentData(leg.option)
    IN  <<o.chain_symbol, data.expiration_date, data.strike_price, data.type,
          data.id, leg.side, o.created_at, o.direction,
          ToString(TotalQuantity(leg.executions)), o.type,
          o.opening_strategy, o.closing_strategy,
          ClaimedAverageCell(leg.executions), o.processed_quantity,
          o.regulatory_fees>>

\* The rows order o is said to give.
ClaimedRows(o) ==
    IF op = "option"
    THEN IF o.state = "filled" THEN [m \in 1..Len(o.legs) |-> ClaimedLegRow(o, m)]
         ELSE <<>>
    ELSE IF FilledUncancelled(o) THEN <<ClaimedFilledRow(o)>>
    ELSE IF op = "stock" /\ CancelledWithExecutions(o)
         THEN [m \in 1..Len(o.executions) |-> ClaimedExecutionRow(o, m)]
    ELSE <<>>

\* The number of rows order o is said to give.
ClaimedCount(o) ==
    IF op = "option"
    THEN IF o.state = "filled" THEN Len(o.legs) ELSE 0
    ELSE IF FilledUncancelled(o) THEN 1
    ELSE IF op = "stock" /\ CancelledWithExecutions(o) THEN Len(o.executions)
    ELSE 0

\* The number of rows the orders before the k-th are said to give.
RECURSIVE ClaimedBefore(_)
ClaimedBefore(k) ==
    IF k <= 1 THEN 0
    ELSE ClaimedBefore(k - 1) + ClaimedCount(all_orders[k - 1])

\* The rows of the file where the k-th order's rows are said to be.
RowsOfOrder(k) ==
    SubSeq(dest, 2 + ClaimedBefore(k), 1 + ClaimedBefore(k + 1))

\* The orders the loop is through with.
Processed == {k \in 1..Len(all_orders) : k < i}

-----------------------------------------------------------------------------
(* The claims *)

\* C1: in the stock and the crypto export, an order the loop is through with
\* that is filled and carries no cancellation marker has exactly one row in
\* the file, at the place after the rows of the orders before it, holding its
\* symbol, last_transaction_at, type, side, fees, quantity and average_price;
\* a crypto order without fees has fees 0.0.
FilledOrderGivesOneRow ==
    (Opened /\ op \in {"stock", "crypto"}) =>
        \A k \in Processed :
            FilledUncancelled(all_orders[k]) =>
                /\ Len(dest) >= 1 + ClaimedBefore(k + 1)
                /\ RowsOfOrder(k) = <<ClaimedFilledRow(all_orders[k])>>
                /\ (k = i - 1 /\ j = 1) => Len(dest) = 1 + ClaimedBefore(k + 1)

FilledOrderGivesOneRow_witness ==
    /\ op = "crypto" /\ pc = "done"
    /\ Len(all_orders) = 2
    /\ FilledUncancelled(all_orders[1]) /\ "fees" \in DOMAIN all_orders[1]
    /\ FilledUncancelled(all_orders[2]) /\ "fees" \notin DOMAIN all_orders[2]
    /\ all_orders[1].side # all_orders[2].side
    /\ Len(dest) = 3
    /\ dest[2][5] = all_orders[1].fees
    /\ dest[3][5] = "0.0"

\* C2: in the stock export, a cancelled order with n >= 1 executions that the
\* loop is through with has exactly n rows in the file, one per execution in
\* the executions' order, each with the execution's timestamp, quantity and
\* price and the order's symbol, type, side and fees.
CancelledOrderGivesRowPerExecution ==
    (Opened /\ op = "stock") =>
        \A k \in Processed :
            CancelledWithExecutions(all_orders[k]) =>
                /\ Len(dest) >= 1 + ClaimedBefore(k) + Len(all_orders[k].executions)
                /\ RowsOfOrder(k) =
                       [m \in 1..Len(all_orders[k].executions) |->
                           ClaimedExecutionRow(all_orders[k], m)]
                /\ (k = i - 1 /\ j = 1) =>
                       Len(dest) = 1 + ClaimedBefore(k)
                                     + Len(all_orders[k].executions)

CancelledOrderGivesRowPerExecution_witness ==
    /\ op = "stock" /\ pc = "done"
    /\ Len(all_orders) = 1
    /\ all_orders[1].state = "cancelled"
    /\ Len(all_orders[1].executions) = 2
    /\ Len(dest) = 3
    /\ dest[2][2] = all_orders[1].executions[1].timestamp
    /\ dest[3][2] = all_orders[1].executions[2].timestamp

\* C3: in the stock and the crypto export the file holds, besides the
\* header, exactly the rows of the qualifying orders and executions met so
\* far: an order that is neither filled without cancellation marker nor (in
\* the stock export) cancelled with executions adds no row.
OnlyQualifyingOrdersGiveRows ==
    (Opened /\ op \in {"stock", "crypto"}) =>
        /\ Len(dest) = ClaimedBefore(i) + j
        /\ i <= Len(all_orders) => j - 1 <= ClaimedCount(all_orders[i])
        /\ pc = "done" => Len(dest) - 1 = ClaimedBefore(Len(all_orders) + 1)

OnlyQualifyingOrdersGiveRows_witness ==
    /\ op = "crypto" /\ pc = "done"
    /\ Len(all_orders) = 2
    /\ all_orders[1].state = "cancelled" /\ Len(all_orders[1].executions) = 1
    /\ FilledUncancelled(all_orders[2])
    /\ Len(dest) = 2

\* C4: for a given file_name, create_absolute_csv returns the resolved
\* dir_path joined with the file name normalised to .csv.
JoinsDirectoryAndFileName ==
    (op = "path" /\ pc = "returned" /\ file_name # <<>>) =>
        ret.val = JoinPath(Resolve(PathOf(dir_path), cwd),
                           WithSuffix(PathOf(file_name), Str_csv).val)

FilledOptionOrderGivesRowPerLeg ==
    (Opened /\ op = "option") =>
        /\ Len(dest) = ClaimedBefore(i) + j
        /\ pc = "done" => Len(dest) - 1 = ClaimedBefore(Len(all_orders) + 1)
        /\ \A k \in Processed : RowsOfOrder(k) = ClaimedRows(all_orders[k])
        /\ \A m \in 1..(j - 1) :
               dest[1 + ClaimedBefore(i) + m] = ClaimedLegRow(all_orders[i], m)
        /\ \A r \in 2..Len(dest) :
               \E k \in 1..Len(all_orders) : \E m \in 1..Len(all_orders[k].legs) :
                   LET execs == all_orders[k].legs[m].executions
                   IN  /\ all_orders[k].state = "filled"
                       /\ r = 1 + ClaimedBefore(k) + m
                       /\ dest[r][9] = ToString(TotalQuantity(execs))
                       /\ dest[r][13] = ClaimedAverageCell(execs)
                       /\ dest[r][6] = all_orders[k].legs[m].side

FilledOptionOrderGivesRowPerLeg_witness ==
    /\ op = "option" /\ pc = "done"
    /\ Len(all_orders) = 2
    /\ all_orders[1].state = "cancelled"
    /\ all_orders[2].state = "filled" /\ Len(all_orders[2].legs) = 2
    /\ Len(dest) = 3
    /\ dest[2][9] # all_orders[2].quantity
    /\ dest[2][13] # all_orders[2].price
    /\ dest[2][6] # dest[3][6]

\* C7: for a non-empty list of executions whose quantities do not sum to
\* zero the aggregation returns the sum of the quantities and the quotient
\* of the sum of price * quantity by the sum of the quantities; executions
\* (10, 2) and (20, 2) give 4 and 15.
AggregateIsWeightedAverage ==
    (op = "agg" /\ pc # "call" /\ executions # <<>>
        /\ TotalQuantity(executions) # 0) =>
        /\ pc = "returned"
        /\ ret.total_quantity = TotalQuantity(executions)
        /\ IsQuotient(ret.avg_price, TotalWeighted(executions),
                      TotalQuantity(executions))
        /\ executions = <<[price |-> 10, quantity |-> 2],
                          [price |-> 20, quantity |-> 2]>> =>
               ret.total_quantity = 4 /\ ret.avg_price = [n |-> 15, d |-> 1]

AggregateIsWeightedAverage_witness ==
    /\ op = "agg" /\ pc = "returned"
    /\ executions = <<[price |-> 10, quantity |-> 2],
                      [price |-> 20, quantity |-> 2]>>
    /\ ret.total_quantity = 4
    /\ ret.avg_price = [n |-> 15, d |-> 1]

\* C8: in the option export a leg of a filled order with no executions is
\* never passed: the file never holds a row for it or for anything after
\* it, the export does not complete, and when the loop stops at that leg
\* it stops with an error.
EmptyLegEndsInError ==
    (Opened /\ op = "option") =>
        \A k \in 1..Len(all_orders) : \A m \in 1..Len(all_orders[k].legs) :
            (all_orders[k].state = "filled"
                /\ all_orders[k].legs[m].executions = <<>>) =>
                /\ pc # "done"
                /\ ~(k < i \/ (k = i /\ m < j))
                /\ Len(dest) <= ClaimedBefore(k) + m
                /\ (k = i /\ m = j /\ pc # "loop") =>
                       pc = "error" /\ err \in {"KeyError", "lookup"}

EmptyLegEndsInError_witness ==
    /\ op = "option" /\ pc = "error" /\ err = "KeyError"
    /\ i = 1 /\ j = 2
    /\ all_orders[1].legs[2].executions = <<>>
    /\ Len(dest) = 2

\* C9: an export resolves the destination, then fetches the orders, then
\* opens the destination and writes the header, then writes rows: no call
\* to the API client is made before the path is resolved, and the
\* destination is neither created nor changed before the orders are
\* fetched, so a failed resolution makes no call and a failed fetch leaves
\* the destination as it was.
StepInOrder ==
    op \in Exports =>
        /\ pc = "start" =>
               /\ calls = 0 /\ calls' = 0 /\ dest' = dest
               /\ pc' \in {"resolved", "error"}
        /\ pc = "resolved" =>
               /\ calls = 0 /\ calls' = 1 /\ dest' = dest
               /\ pc' \in {"fetched", "error"}
        /\ pc = "fetched" =>
               /\ calls' = calls
               /\ \/ pc' = "loop" /\ dest' = <<HeaderOf(op)>>
                  \/ pc' = "error" /\ dest' = dest
        /\ pc = "loop" =>
               /\ pc' \in {"loop", "done", "error"}
               /\ dest # NoFile /\ Head(dest) = HeaderOf(op)
               /\ \/ dest' = dest
                  \/ /\ Len(dest') = Len(dest) + 1
                     /\ SubSeq(dest', 1, Len(dest)) = dest
        /\ pc \notin {"done", "error"}

StepsInOrder == [][StepInOrder]_vars

StepsInOrder_witness ==
    /\ op \in Exports
    /\ pc = "error" /\ err = "fetch"
    /\ calls = 1
    /\ dest = OldContent

\* C10: when a lookup made for a row fails, the export stops with that
\* error and the file holds the header and exactly the rows written before:
\* those of the orders before the failing one and of the executions or legs
\* of the failing order before the failing one, which are the first rows a
\* run without failure would write.
RECURSIVE ClaimedUpTo(_)
ClaimedUpTo(k) ==
    IF k = 0 THEN <<>>
    ELSE ClaimedUpTo(k - 1) \o SubSeq(ClaimedRows(all_orders[k]), 1,
                                      Len(ClaimedRows(all_orders[k])))

LookupFailureLeavesPrefix ==
    (op \in Exports /\ pc = "error" /\ err = "lookup") =>
        /\ i <= Len(all_orders)
        /\ j <= ClaimedCount(all_orders[i])
        /\ dest = <<HeaderOf(op)>> \o ClaimedUpTo(i - 1)
                    \o SubSeq(ClaimedRows(all_orders[i]), 1, j - 1)
        /\ \A r \in 1..(Len(dest) - 1) :
               dest[r + 1] = ClaimedUpTo(Len(all_orders))[r]

LookupFailureLeavesPrefix_witness ==
    /\ op = "stock" /\ pc = "error" /\ err = "lookup"
    /\ i = 2 /\ j = 2
    /\ Len(dest) = 3
    /\ FilledUncancelled(all_orders[1])

====
